---- MODULE Spec2Model ----
(***************************************************************************)
(* A model of the ECS game runtime of src/main.py: the component store     *)
(* (ECSManager), the per-frame systems and the frame loop (Game.run).      *)
(*                                                                         *)
(* Numbers.  Python floats are modelled in exact fixed point: lengths are  *)
(* integers counting 1/PosScale of a pixel, times are integers counting    *)
(* milliseconds (Game.run's dt is clock.tick()/1000.0, a whole number of   *)
(* milliseconds).  pygame.Rect keeps integers: building a Rect from a      *)
(* float truncates it toward zero, which RectOf models.                    *)
(***************************************************************************)
EXTENDS Integers, Sequences, FiniteSets, TLC

VARIABLES
    ecs,            \* the ECSManager object: next_entity_id, components, entities_to_destroy
    pc,             \* the position of the running code
    dt,             \* the dt of the update in progress, in milliseconds
    movables,       \* PhysicsSystem.update: the entities still to be moved, in list order
    walls,          \* PhysicsSystem.update: the list of entities with Transform and Collider
    running,        \* Game.running
    cam,            \* Game.run: the camera offset of the frame
    drawn,          \* RenderSystem.update: the entities drawn by the last call, in draw order
    steps,          \* history: the steps begun since the frame (or the call) began
    flushed,        \* history: entities destroyed and flushed, with no component added since
    queued_kinds,   \* history: for each queued entity, the kinds it held when first queued
    shown,          \* history: for each sprite, the frame indices its advances gave
                    \* since its animation last changed
    last_move,      \* history: the last axis step of the physics: entity, axis, the
                    \* velocity it moved with and the solid colliders its moved box overlapped
    ticks           \* history: the number of updates called

locals == <<dt, movables, walls>>
game == <<running, cam, drawn>>
store_hist == <<flushed, queued_kinds>>
anim_hist == <<shown>>
phys_hist == <<last_move, ticks>>

vars == <<ecs, pc, locals, game, steps, store_hist, anim_hist, phys_hist>>

(***************************************************************************)
(* Bounds of the model.                                                    *)
(***************************************************************************)
MaxEntities == 2
MaxQueue == 2
MaxQueryLen == 2
MaxFrames == 4      \* the longest frame list of the sprites tried
MaxShown == 8       \* the frame advances followed for one sprite
MaxGameFrames == 2  \* the frames of Game.run followed
MaxTicks == 2       \* the physics updates followed

(***************************************************************************)
(* Helpers on finite maps and sequences.                                   *)
(***************************************************************************)
EmptyMap == [k \in {} |-> 0]

Range(s) == {s[i] : i \in DOMAIN s}

\* The map m without the key k (Python: del m[k]).
Without(m, k) == [j \in (DOMAIN m) \ {k} |-> m[j]]

\* The map m with m[k] = v (Python: m[k] = v).
With(m, k, v) == [j \in (DOMAIN m) \cup {k} |-> IF j = k THEN v ELSE m[j]]

\* Every list holding each element of S exactly once: the orders list(set) may give.
ListsOf(S) == {s \in [1..Cardinality(S) -> S] : Range(s) = S}

\* The list of the elements of a set of integers in ascending order: the order
\* CPython's list(set) gives for a set of small entity ids.
RECURSIVE Ascending(_)
Ascending(S) ==
    IF S = {} THEN <<>>
    ELSE LET least == CHOOSE x \in S : \A y \in S : x <= y
         IN  <<least>> \o Ascending(S \ {least})

\* The lists the code may get from list(set): every order when driven alone,
\* the ascending one in the game, whose entity ids are 0 to 5.
ListOrders(S, any_order) == IF any_order THEN ListsOf(S) ELSE {Ascending(S)}

(***************************************************************************)
(* Components (the dataclasses).  The field kind models type(component).   *)
(***************************************************************************)
None == [kind |-> "None"]

\* No axis step of the physics was taken yet.
NoMove ==
    [entity |-> -1, axis |-> "none", d |-> 0, v_in |-> [x |-> 0, y |-> 0],
     a_in |-> [x |-> 0, y |-> 0], x_moved |-> 0, y_from |-> 0,
     vx |-> 0, hits_x |-> {}, vy |-> 0, hits_y |-> {}]

Transform(x, y, width, height) ==
    [kind |-> "Transform", x |-> x, y |-> y, width |-> width, height |-> height]

Collider(is_solid, tag) == [kind |-> "Collider", is_solid |-> is_solid, tag |-> tag]

InputControl == [kind |-> "InputControl"]

(***************************************************************************)
(* ECSManager.                                                             *)
(***************************************************************************)
ECSManager == [next_entity_id |-> 0, components |-> EmptyMap, entities_to_destroy |-> <<>>]

create_entity(e) == [e EXCEPT !.next_entity_id = @ + 1]

add_component(e, entity, component) ==
    LET comp_type == component.kind
        table == IF comp_type \in DOMAIN e.components
                 THEN e.components[comp_type] ELSE EmptyMap
    IN  [e EXCEPT !.components = With(@, comp_type, With(table, entity, component))]

\* self.components.get(comp_type, {})
Table(e, comp_type) ==
    IF comp_type \in DOMAIN e.components THEN e.components[comp_type] ELSE EmptyMap

get_component(e, entity, comp_type) ==
    IF entity \in DOMAIN Table(e, comp_type) THEN Table(e, comp_type)[entity] ELSE None

RECURSIVE IntersectKeys(_, _, _)
IntersectKeys(e, entities, comp_types) ==
    IF comp_types = <<>> THEN entities
    ELSE IntersectKeys(e, entities \cap DOMAIN Table(e, Head(comp_types)), Tail(comp_types))

get_entities_with_first(e, comp_types) ==
    IF comp_types = <<>> THEN {} ELSE DOMAIN Table(e, comp_types[1])

\* The result as a set; the list the code returns is any member of ListsOf of it.
get_entities_with(e, comp_types) ==
    IF comp_types = <<>> THEN {}
    ELSE IntersectKeys(e, DOMAIN Table(e, comp_types[1]), Tail(comp_types))

destroy_entity_eager(e, entity) ==
    [e EXCEPT !.components = [ct \in DOMAIN @ |-> Without(@[ct], entity)],
              !.entities_to_destroy = Append(@, entity)]

destroy_entity(e, entity) == [e EXCEPT !.entities_to_destroy = Append(@, entity)]

RECURSIVE DeleteRows(_, _)
DeleteRows(components, queue) ==
    IF queue = <<>> THEN components
    ELSE DeleteRows([ct \in DOMAIN components |-> Without(components[ct], Head(queue))],
                    Tail(queue))

process_destruction_first(e) ==
    [e EXCEPT !.components =
                  IF e.entities_to_destroy = <<>> THEN @
                  ELSE DeleteRows(@, <<Head(e.entities_to_destroy)>>),
              !.entities_to_destroy = <<>>]

\* A flush that forgets to clear the queue.
process_destruction_no_clear(e) ==
    [e EXCEPT !.components = DeleteRows(@, e.entities_to_destroy)]

process_destruction(e) ==
    [e EXCEPT !.components = DeleteRows(@, e.entities_to_destroy),
              !.entities_to_destroy = <<>>]

(***************************************************************************)
(* The store driven through its interface, in any order of calls.          *)
(***************************************************************************)
StoreKinds == {"Collider", "InputControl", "Transform"}

\* The components the calls add; no call adds a Transform, so that kind is
\* never registered.
SampleComponents == {Collider(TRUE, "default"), Collider(FALSE, "default"), InputControl}

Entities == 0..(MaxEntities - 1)

\* The kinds for which the entity holds a row.
KindsOf(e, entity) == {ct \in DOMAIN e.components : entity \in DOMAIN e.components[ct]}

StoreInit ==
    /\ ecs = ECSManager
    /\ pc = "api"
    /\ dt = 0 /\ movables = <<>> /\ walls = <<>>
    /\ running = TRUE /\ cam = [x |-> 0, y |-> 0] /\ drawn = <<>>
    /\ steps = <<>>
    /\ flushed = {}
    /\ queued_kinds = EmptyMap
    /\ shown = EmptyMap
    /\ last_move = NoMove
    /\ ticks = 0

CreateEntity ==
    /\ pc = "api"
    /\ ecs.next_entity_id < MaxEntities
    /\ ecs' = create_entity(ecs)
    /\ UNCHANGED <<pc, locals, store_hist, anim_hist, phys_hist, game, steps>>

AddComponent ==
    /\ pc = "api"
    /\ \E entity \in 0..(ecs.next_entity_id - 1), component \in SampleComponents :
          /\ ecs' = add_component(ecs, entity, component)
          /\ flushed' = flushed \ {entity}
    /\ UNCHANGED <<pc, locals, queued_kinds, anim_hist, phys_hist, game, steps>>

DestroyEntity ==
    /\ pc = "api"
    /\ Len(ecs.entities_to_destroy) < MaxQueue
    /\ \E entity \in 0..(ecs.next_entity_id - 1) :
          /\ ecs' = destroy_entity(ecs, entity)
          /\ queued_kinds' = IF entity \in DOMAIN queued_kinds THEN queued_kinds
                             ELSE With(queued_kinds, entity, KindsOf(ecs, entity))
    /\ UNCHANGED <<pc, locals, flushed, anim_hist, phys_hist, game, steps>>

ProcessDestruction ==
    /\ pc = "api"
    /\ ecs' = process_destruction(ecs)
    /\ flushed' = flushed \cup Range(ecs.entities_to_destroy)
    /\ queued_kinds' = EmptyMap
    /\ UNCHANGED <<pc, locals, anim_hist, phys_hist, game, steps>>

StoreNext == CreateEntity \/ AddComponent \/ DestroyEntity \/ ProcessDestruction

SpecStore == StoreInit /\ [][StoreNext]_vars

(***************************************************************************)
(* Claims on the store.                                                    *)
(***************************************************************************)
QueryTuples == UNION {[1..n -> StoreKinds] : n \in 0..MaxQueryLen}

\* C1: for every reachable store and every tuple K of kinds, get_entities_with(K)
\* is exactly the set of entities holding a row for every kind of K (a kind never
\* registered is held by nobody), and with no kinds the result is empty.
C1_QueryLaw ==
    \A K \in QueryTuples :
        get_entities_with(ecs, K) =
            IF K = <<>> THEN {}
            ELSE {entity \in Entities :
                     \A i \in DOMAIN K :
                        /\ K[i] \in DOMAIN ecs.components
                        /\ entity \in DOMAIN ecs.components[K[i]]}

\* A store in which a two-kind query selects one entity and leaves out another
\* that holds only one of the kinds.
C1_Witness ==
    /\ get_entities_with(ecs, <<"Collider", "InputControl">>) = {0}
    /\ 1 \in DOMAIN Table(ecs, "Collider")
    /\ "Transform" \notin DOMAIN ecs.components

\* C2: once an entity was destroyed and flushed, and while no component is added
\* to it again, no query returns it and get_component gives no value for every
\* kind; and a flush leaves the rows of every entity that was not queued as
\* they were.
C2_DestructionLaw ==
    /\ [](\A entity \in flushed :
             /\ \A K \in QueryTuples : entity \notin get_entities_with(ecs, K)
             /\ \A ct \in StoreKinds : get_component(ecs, entity, ct) = None)
    /\ [][(ecs.entities_to_destroy # <<>> /\ ecs'.entities_to_destroy = <<>>) =>
             \A entity \in Entities \ Range(ecs.entities_to_destroy) :
                \A ct \in StoreKinds :
                   get_component(ecs', entity, ct) = get_component(ecs, entity, ct)]_vars

\* After a flush that removed entity 0, entity 1 still holds its rows.
C2_Witness ==
    /\ 0 \in flushed
    /\ 1 \notin flushed
    /\ KindsOf(ecs, 1) = {"Collider", "InputControl"}
    /\ ecs.entities_to_destroy = <<>>

\* C3: destruction is deferred.  A row leaves the store only in a step that
\* flushes the queue, and then every row of that entity leaves with it; a step
\* that queues an entity changes no row; and a queued entity still holds every
\* kind it held when it was queued.
C3_Deferred ==
    /\ [](\A entity \in DOMAIN queued_kinds :
             /\ entity \in Range(ecs.entities_to_destroy)
             /\ queued_kinds[entity] \subseteq KindsOf(ecs, entity)
             /\ \A K \in QueryTuples :
                   (K # <<>> /\ Range(K) \subseteq queued_kinds[entity]) =>
                       entity \in get_entities_with(ecs, K))
    /\ [][/\ \A entity \in Entities :
                (KindsOf(ecs, entity) \ KindsOf(ecs', entity) # {}) =>
                    /\ entity \in Range(ecs.entities_to_destroy)
                    /\ ecs'.entities_to_destroy = <<>>
                    /\ KindsOf(ecs', entity) = {}
          /\ (Len(ecs'.entities_to_destroy) > Len(ecs.entities_to_destroy)) =>
                ecs'.components = ecs.components]_vars

\* Entity 0 is queued for destruction and still holds both of its rows.
C3_Witness ==
    /\ 0 \in Range(ecs.entities_to_destroy)
    /\ KindsOf(ecs, 0) = {"Collider", "InputControl"}
    /\ queued_kinds[0] = {"Collider", "InputControl"}

(***************************************************************************)
(* MovementState, PaperSprite and the AnimationSystem.                     *)
(*                                                                         *)
(* An animation name is the list of the pieces it is formatted from:       *)
(* f"{state}_{facing}" is <<state, "_", facing>>, and "default" is         *)
(* <<"default">>; str.replace acts on the pieces.  A frame list is a list  *)
(* of frame handles.  frame_timer and frame_duration are in milliseconds.  *)
(***************************************************************************)
MovementState(current_state, facing) ==
    [kind |-> "MovementState", current_state |-> current_state, facing |-> facing]

PaperSprite(animations, current_anim, loop_mode, z_index) ==
    [kind |-> "PaperSprite", animations |-> animations, current_anim |-> current_anim,
     frame_index |-> 0, frame_timer |-> 0, frame_duration |-> 150, playback_speed |-> 1,
     loop_mode |-> loop_mode, ping_pong_direction |-> 1, flip_x |-> FALSE,
     z_index |-> z_index]

\* f"{a}_{b}"
Fmt(a, b) == <<a, "_", b>>

\* name.replace("LEFT", "RIGHT")
ReplaceLeft(name) == [i \in DOMAIN name |-> IF name[i] = "LEFT" THEN "RIGHT" ELSE name[i]]

\* frames = animations.get(current_anim), for a name the table has
FramesOf(anim) == anim.animations[anim.current_anim]

\* "if not frames: continue" skips None (the table lacks the name) and the
\* empty list
NoFrames(anim) ==
    \/ anim.current_anim \notin DOMAIN anim.animations
    \/ FramesOf(anim) = <<>>

\* Phase 1 for one entity: the target name and the flip flag.
ResolveTarget(state, anim) ==
    LET target0 == Fmt(state.current_state, state.facing)
        target1 == IF state.facing = "LEFT" THEN ReplaceLeft(target0) ELSE target0
    IN  IF target1 \notin DOMAIN anim.animations
        THEN ReplaceLeft(Fmt("IDLE", state.facing))
        ELSE target1

StateMappingNoFallback(state, anim) ==
    LET target == ReplaceLeft(Fmt(state.current_state, state.facing))
        flipped == [anim EXCEPT !.flip_x = (state.facing = "LEFT")]
    IN  IF anim.current_anim # target
        THEN [flipped EXCEPT !.current_anim = target, !.frame_index = 0, !.frame_timer = 0]
        ELSE flipped

\* A switch that keeps the frame index and the timer of the animation it leaves.
StateMappingNoReset(state, anim) ==
    [anim EXCEPT !.flip_x = (state.facing = "LEFT"),
                 !.current_anim = ResolveTarget(state, anim)]

StateMapping(state, anim) ==
    LET target == ResolveTarget(state, anim)
        flipped == [anim EXCEPT !.flip_x = (state.facing = "LEFT")]
    IN  IF anim.current_anim # target
        THEN [flipped EXCEPT !.current_anim = target, !.frame_index = 0, !.frame_timer = 0]
        ELSE flipped

\* Phase 2: does this update advance the frame of the sprite?
Advances(anim, d) ==
    /\ ~NoFrames(anim)
    /\ anim.frame_timer + d * anim.playback_speed >= anim.frame_duration

NextFrameNoBounce(anim) ==
    LET n == Len(FramesOf(anim))
    IN  [anim EXCEPT !.frame_index = (@ + 1) % n]

\* The frame index and direction after one advance.
NextFrame(anim) ==
    LET n == Len(FramesOf(anim))
    IN  IF anim.loop_mode = "PINGPONG"
        THEN LET i == anim.frame_index + 1 * anim.ping_pong_direction
             IN  IF i >= n
                 THEN [anim EXCEPT !.frame_index = n - 2, !.ping_pong_direction = -1]
                 ELSE IF i < 0
                      THEN [anim EXCEPT !.frame_index = 1, !.ping_pong_direction = 1]
                      ELSE [anim EXCEPT !.frame_index = i]
        ELSE [anim EXCEPT !.frame_index = (@ + 1) % n]

\* Phase 2 for one sprite.
FrameAdvance(anim, d) ==
    IF NoFrames(anim) THEN anim
    ELSE IF Advances(anim, d)
         THEN NextFrame([anim EXCEPT !.frame_timer = 0])
         ELSE [anim EXCEPT !.frame_timer = @ + d * anim.playback_speed]

\* AnimationSystem.update, phase 1, over the store.  Each iteration writes the
\* sprite of its own entity only, so the order of the entity list has no effect.
AnimStateMapping(e) ==
    LET controlled == get_entities_with(e, <<"MovementState", "PaperSprite">>)
    IN  IF controlled = {} THEN e
        ELSE [e EXCEPT !.components["PaperSprite"] =
                 [entity \in DOMAIN @ |->
                     IF entity \in controlled
                     THEN StateMapping(get_component(e, entity, "MovementState"), @[entity])
                     ELSE @[entity]]]

\* AnimationSystem.update, phase 2, over the store.
AnimFrameAdvance(e, d) ==
    LET all_sprites == get_entities_with(e, <<"PaperSprite">>)
    IN  IF all_sprites = {} THEN e
        ELSE [e EXCEPT !.components["PaperSprite"] =
                 [entity \in DOMAIN @ |-> FrameAdvance(@[entity], d)]]

Sprite(entity) == get_component(ecs, entity, "PaperSprite")

Sprites == get_entities_with(ecs, <<"PaperSprite">>)

AnimPhaseA ==
    /\ pc = "anim"
    /\ ecs' = AnimStateMapping(ecs)
    /\ shown' = [entity \in DOMAIN shown |->
                    IF get_component(ecs', entity, "PaperSprite").current_anim
                          # Sprite(entity).current_anim
                    THEN <<>> ELSE shown[entity]]
    /\ pc' = "anim_frames"
    /\ steps' = Append(steps, "AnimationSystem.update")
    /\ UNCHANGED <<locals, store_hist, phys_hist, game>>

AnimPhaseB(return) ==
    /\ pc = "anim_frames"
    /\ ecs' = AnimFrameAdvance(ecs, dt)
    /\ shown' = [entity \in DOMAIN shown |->
                    IF Advances(Sprite(entity), dt)
                    THEN Append(shown[entity],
                                get_component(ecs', entity, "PaperSprite").frame_index)
                    ELSE shown[entity]]
    /\ pc' = return
    /\ UNCHANGED <<locals, store_hist, phys_hist, game, steps>>

(***************************************************************************)
(* The AnimationSystem driven by calls of update(dt), between which a      *)
(* caller may replace the MovementState of an entity.                      *)
(***************************************************************************)
FrameList(n) == [i \in 1..n |-> i]

\* generate_anim_frames returns four frames.
generate_anim_frames == FrameList(4)

\* The animation tables of create_player and create_monster, and a table that
\* defines "WALK_RIGHT" only.
PlayerAnims ==
    LET frames == generate_anim_frames
    IN  [name \in {Fmt("IDLE", "DOWN"), Fmt("IDLE", "RIGHT"), Fmt("WALK", "DOWN"),
                   Fmt("WALK", "UP"), Fmt("WALK", "RIGHT")} |->
            IF name[1] = "IDLE" THEN <<frames[1]>> ELSE frames]

MonsterAnims ==
    LET frames == generate_anim_frames
    IN  [name \in {Fmt("IDLE", "DOWN"), Fmt("IDLE", "RIGHT"), Fmt("WALK", "DOWN"),
                   Fmt("WALK", "RIGHT")} |->
            IF name[1] = "IDLE" THEN <<frames[1]>> ELSE frames]

OnlyWalkRight == [name \in {Fmt("WALK", "RIGHT")} |-> generate_anim_frames]

AnimTables == {PlayerAnims, MonsterAnims, OnlyWalkRight}

LoopModes == {"LOOP", "ONCE", "PINGPONG"}

MotionStates == {"IDLE", "WALK"}

Facings == {"DOWN", "UP", "LEFT", "RIGHT"}

\* update(dt) is tried with dt of half a frame duration and of a whole one.
AnimDts == {75, 150}

\* One entity with a MovementState and a sprite, as create_player and
\* create_monster build it.
CharacterWorld(animations, loop_mode) ==
    LET entity == ECSManager.next_entity_id
        e1 == add_component(create_entity(ECSManager), entity, MovementState("IDLE", "DOWN"))
    IN  add_component(e1, entity, PaperSprite(animations, <<"default">>, loop_mode, 0))

\* One entity with a sprite and no MovementState, as create_ghost and
\* create_wall build it: a single animation "default" of n frames.
DecorWorld(n, loop_mode) ==
    LET entity == ECSManager.next_entity_id
    IN  add_component(create_entity(ECSManager), entity,
                      PaperSprite([name \in {<<"default">>} |-> FrameList(n)],
                                  <<"default">>, loop_mode, 1))

AnimInit ==
    /\ ecs \in {CharacterWorld(t, m) : t \in AnimTables, m \in LoopModes}
                 \cup {DecorWorld(n, m) : n \in 1..MaxFrames, m \in LoopModes}
    /\ pc = "api"
    /\ dt = 0 /\ movables = <<>> /\ walls = <<>>
    /\ running = TRUE /\ cam = [x |-> 0, y |-> 0] /\ drawn = <<>>
    /\ steps = <<>>
    /\ flushed = {}
    /\ queued_kinds = EmptyMap
    /\ last_move = NoMove
    /\ ticks = 0
    /\ shown = [entity \in get_entities_with(ecs, <<"PaperSprite">>) |-> <<>>]

\* A caller (the Input or AI system, or any client of the store) sets the
\* MovementState of an entity.
SetMovementState ==
    /\ pc = "api"
    /\ \E entity \in get_entities_with(ecs, <<"MovementState">>),
          s \in MotionStates, f \in Facings :
          ecs' = add_component(ecs, entity, MovementState(s, f))
    /\ UNCHANGED <<pc, locals, store_hist, anim_hist, phys_hist, game, steps>>

\* AnimationSystem.update(dt) is called.
CallAnimUpdate ==
    /\ pc = "api"
    /\ \A entity \in DOMAIN shown : Len(shown[entity]) < MaxShown
    /\ \E d \in AnimDts : dt' = d
    /\ pc' = "anim"
    /\ steps' = <<>>
    /\ UNCHANGED <<ecs, movables, walls, store_hist, anim_hist, phys_hist, game>>

AnimNext == SetMovementState \/ CallAnimUpdate \/ AnimPhaseA \/ AnimPhaseB("api")

SpecAnim == AnimInit /\ [][AnimNext]_vars

(***************************************************************************)
(* Claims on the AnimationSystem.                                          *)
(***************************************************************************)
\* C5: after any sequence of update ticks, every sprite whose active animation
\* has at least one frame has 0 <= frame_index < the number of those frames, in
\* every loop mode and for every frame count from 1 up.
C5_FrameIndexInBounds ==
    \A entity \in Sprites :
        ~NoFrames(Sprite(entity)) =>
            /\ 0 <= Sprite(entity).frame_index
            /\ Sprite(entity).frame_index < Len(FramesOf(Sprite(entity)))

\* C6: a PINGPONG sprite of 4 frames that starts at index 0 with direction +1
\* shows on its successive advances 1,2,3,2,1,0,1,2,3,...: the direction flips at
\* each end, and neither 3 nor 0 is shown on two advances in a row.
PingPongCycle == <<1, 2, 3, 2, 1, 0>>

C6_PingPongCycle ==
    \A entity \in Sprites :
        LET anim == Sprite(entity)
            seen == shown[entity]
        IN  (anim.loop_mode = "PINGPONG" /\ ~NoFrames(anim)
                /\ Len(FramesOf(anim)) = 4) =>
                /\ \A i \in DOMAIN seen : seen[i] = PingPongCycle[((i - 1) % 6) + 1]
                /\ \A i \in DOMAIN seen :
                      (i > 1 /\ seen[i - 1] \in {0, 3}) => seen[i] # seen[i - 1]
                /\ seen = <<>> => anim.frame_index = 0
                /\ seen # <<>> => anim.frame_index = seen[Len(seen)]
                /\ (Len(seen) > 1 /\ seen[Len(seen) - 1] = 3) => anim.ping_pong_direction = -1
                /\ (Len(seen) > 1 /\ seen[Len(seen) - 1] = 0) => anim.ping_pong_direction = 1

\* The sprite went up to 3, back down to 0 and is on its way up again.
C6_Witness ==
    /\ 0 \in Sprites
    /\ Sprite(0).loop_mode = "PINGPONG"
    /\ "MovementState" \notin KindsOf(ecs, 0)
    /\ shown[0] = <<1, 2, 3, 2, 1, 0, 1, 2>>

\* C7: a ONCE sprite of n frames advances by one frame at a time up to n-1 and
\* then stays at n-1; its index never goes back to 0.
C7_OnceHolds ==
    [][\A entity \in Sprites :
          LET anim == Sprite(entity)
              after == get_component(ecs', entity, "PaperSprite")
          IN  (anim.loop_mode = "ONCE" /\ ~NoFrames(anim)
                 /\ after.current_anim = anim.current_anim) =>
                 /\ after.frame_index \in {anim.frame_index, anim.frame_index + 1}
                 /\ anim.frame_index = Len(FramesOf(anim)) - 1 =>
                       after.frame_index = anim.frame_index]_vars

\* C8: after phase 1, for every entity with a MovementState and a sprite,
\* current_anim is "<state>_<facing>" with LEFT written as RIGHT if the table
\* has that name and else "IDLE_<facing>" with LEFT written as RIGHT, and
\* flip_x is true exactly when facing is LEFT; (WALK, LEFT) with only
\* "WALK_RIGHT" defined gives "WALK_RIGHT", flipped.
C8_StateMapping ==
    pc = "anim_frames" =>
        \A entity \in get_entities_with(ecs, <<"MovementState", "PaperSprite">>) :
            LET state == get_component(ecs, entity, "MovementState")
                anim == Sprite(entity)
                side == IF state.facing = "LEFT" THEN "RIGHT" ELSE state.facing
            IN  /\ anim.flip_x = (state.facing = "LEFT")
                /\ anim.current_anim =
                      IF <<state.current_state, "_", side>> \in DOMAIN anim.animations
                      THEN <<state.current_state, "_", side>>
                      ELSE <<"IDLE", "_", side>>
                /\ (state = MovementState("WALK", "LEFT") /\ anim.animations = OnlyWalkRight)
                      => (anim.current_anim = <<"WALK", "_", "RIGHT">> /\ anim.flip_x)

\* Phase 1 ran for (WALK, LEFT) on the table that defines "WALK_RIGHT" only.
C8_Witness ==
    /\ pc = "anim_frames"
    /\ get_component(ecs, 0, "MovementState") = MovementState("WALK", "LEFT")
    /\ Sprite(0).animations = OnlyWalkRight
    /\ Sprite(0).current_anim = <<"WALK", "_", "RIGHT">>
    /\ Sprite(0).flip_x

\* Phase 1 fell back to the IDLE animation for a facing the table lacks.
C8_WitnessFallback ==
    /\ pc = "anim_frames"
    /\ get_component(ecs, 0, "MovementState") = MovementState("WALK", "UP")
    /\ Sprite(0).animations = MonsterAnims
    /\ Sprite(0).current_anim = <<"IDLE", "_", "UP">>

(***************************************************************************)
(* RigidBody and the PhysicsSystem.                                        *)
(*                                                                         *)
(* Transform.x and .y count 1/PosScale of a pixel, so that positions       *)
(* between two pixels exist; width and height are whole pixels.  Velocity  *)
(* counts 1/PosScale pixel per second, acceleration 1/PosScale pixel per   *)
(* second squared; friction and max_speed are in pixels as in the source.  *)
(* Products with dt and quotients by a vector length are rounded toward    *)
(* zero to that resolution.                                                *)
(***************************************************************************)
PosScale == 2

Vector2(x, y) == [x |-> x, y |-> y]

RigidBody(velocity, acceleration, friction, max_speed) ==
    [kind |-> "RigidBody", velocity |-> velocity, acceleration |-> acceleration,
     friction |-> friction, max_speed |-> max_speed]

\* The quotient rounded toward zero (b > 0), as int() of a float.
TruncDiv(a, b) == IF a >= 0 THEN a \div b ELSE -((-a) \div b)

\* value * dt, with dt in milliseconds
MulDt(value, d) == TruncDiv(value * d, 1000)

\* The integer square root, by bisection: the r in lo..hi with r*r <= n < (r+1)*(r+1).
RECURSIVE ISqrtIn(_, _, _)
ISqrtIn(n, lo, hi) ==
    IF lo = hi THEN lo
    ELSE LET mid == (lo + hi + 1) \div 2
         IN  IF mid * mid <= n THEN ISqrtIn(n, mid, hi) ELSE ISqrtIn(n, lo, mid - 1)

ISqrt(n) == ISqrtIn(n, 0, 46340)

LengthSquared(v) == v.x * v.x + v.y * v.y

\* Vector2.length() is computed to 1/1000 for short vectors and to 1/100 for
\* the others (shorter than 400), rounded down.
LengthScale(v) == IF LengthSquared(v) < 2000 THEN 1000 ELSE 100

ScaledLength(v) == ISqrt(LengthSquared(v) * LengthScale(v) * LengthScale(v))

\* The vector of the direction of v and of length len (v # 0):
\* v.normalize() * len, and v.scale_to_length(len).
ScaledTo(v, len) ==
    IF v.y = 0 THEN Vector2(IF v.x > 0 THEN len ELSE -len, 0)
    ELSE IF v.x = 0 THEN Vector2(0, IF v.y > 0 THEN len ELSE -len)
    ELSE Vector2(TruncDiv(v.x * len * LengthScale(v), ScaledLength(v)),
                 TruncDiv(v.y * len * LengthScale(v), ScaledLength(v)))

\* pygame.Rect(x, y, width, height) of a Transform: whole pixels, the position
\* rounded toward zero.
RectOf(t) ==
    [left |-> TruncDiv(t.x, PosScale), top |-> TruncDiv(t.y, PosScale),
     width |-> t.width, height |-> t.height]

Right(r) == r.left + r.width

Bottom(r) == r.top + r.height

\* Rect.colliderect, for rectangles of positive size: touching edges do not collide.
colliderect(a, b) ==
    /\ a.left < Right(b) /\ b.left < Right(a)
    /\ a.top < Bottom(b) /\ b.top < Bottom(a)

\* Friction that always subtracts friction_vec.
FrictionNoStop(velocity, friction_len) ==
    LET friction_vec == ScaledTo(velocity, friction_len)
    IN  Vector2(velocity.x - friction_vec.x, velocity.y - friction_vec.y)

\* The friction branch for a velocity that is not zero: stop when the velocity
\* is shorter than friction_vec, whose length is friction_len, and subtract
\* friction_vec otherwise.
Friction(velocity, friction_len) ==
    IF LengthSquared(velocity) < friction_len * friction_len
    THEN Vector2(0, 0)
    ELSE LET friction_vec == ScaledTo(velocity, friction_len)
         IN  Vector2(velocity.x - friction_vec.x, velocity.y - friction_vec.y)

\* Lines 207-217: the velocity after the acceleration, or the friction when
\* there is none, was applied.
Accelerated(rb, d) ==
    LET friction_len == MulDt(rb.friction * 50 * PosScale, d)
    IN  IF rb.acceleration # Vector2(0, 0)
        THEN Vector2(rb.velocity.x + MulDt(rb.acceleration.x, d),
                     rb.velocity.y + MulDt(rb.acceleration.y, d))
        ELSE IF rb.velocity # Vector2(0, 0)
             THEN Friction(rb.velocity, friction_len)
             ELSE rb.velocity

\* A clamp that lets every velocity through.
ClampNone(velocity, max_speed) == velocity

\* Lines 219-221: a velocity longer than max_speed is scaled to that length.
Clamp(velocity, max_speed) ==
    LET max == max_speed * PosScale
    IN  IF LengthSquared(velocity) > max * max THEN ScaledTo(velocity, max) ELSE velocity

\* Step 1 without the reset of the acceleration.
IntegrateKeepAccel(rb, d) ==
    [rb EXCEPT !.velocity = Clamp(Accelerated(rb, d), rb.max_speed)]

\* Step 1 of the update for one RigidBody: integrate or apply friction, clamp
\* the speed, reset the acceleration.
Integrate(rb, d) ==
    [rb EXCEPT !.velocity = Clamp(Accelerated(rb, d), rb.max_speed),
               !.acceleration = Vector2(0, 0)]

\* Is wall an entity the collision loops test the moved box against, and does
\* the box overlap it?
Hits(e, entity, rect, wall) ==
    /\ wall # entity
    /\ get_component(e, wall, "Collider").is_solid
    /\ colliderect(rect, RectOf(get_component(e, wall, "Transform")))

\* The collision loop of the X axis over the list ws: on each overlap of the
\* box entity_rect_x, built once before the loop, snap by the sign of the
\* velocity of that moment and zero the velocity.
RECURSIVE ResolveX(_, _, _, _)
ResolveX(e, entity, entity_rect_x, ws) ==
    IF ws = <<>> THEN e
    ELSE LET wall == Head(ws)
             pos == get_component(e, entity, "Transform")
             rb == get_component(e, entity, "RigidBody")
             wall_rect == RectOf(get_component(e, wall, "Transform"))
             x1 == IF rb.velocity.x > 0 THEN (wall_rect.left - pos.width) * PosScale
                   ELSE pos.x
             x2 == IF rb.velocity.x < 0 THEN Right(wall_rect) * PosScale ELSE x1
         IN  IF Hits(e, entity, entity_rect_x, wall)
             THEN ResolveX([e EXCEPT !.components["Transform"][entity].x = x2,
                                     !.components["RigidBody"][entity].velocity.x = 0],
                           entity, entity_rect_x, Tail(ws))
             ELSE ResolveX(e, entity, entity_rect_x, Tail(ws))

RECURSIVE ResolveY(_, _, _, _)
ResolveY(e, entity, entity_rect_y, ws) ==
    IF ws = <<>> THEN e
    ELSE LET wall == Head(ws)
             pos == get_component(e, entity, "Transform")
             rb == get_component(e, entity, "RigidBody")
             wall_rect == RectOf(get_component(e, wall, "Transform"))
             y1 == IF rb.velocity.y > 0 THEN (wall_rect.top - pos.height) * PosScale
                   ELSE pos.y
             y2 == IF rb.velocity.y < 0 THEN Bottom(wall_rect) * PosScale ELSE y1
         IN  IF Hits(e, entity, entity_rect_y, wall)
             THEN ResolveY([e EXCEPT !.components["Transform"][entity].y = y2,
                                     !.components["RigidBody"][entity].velocity.y = 0],
                           entity, entity_rect_y, Tail(ws))
             ELSE ResolveY(e, entity, entity_rect_y, Tail(ws))

\* pos.x += rb.velocity.x * dt
MovedX(e, entity, d) ==
    [e EXCEPT !.components["Transform"][entity].x =
                  @ + MulDt(get_component(e, entity, "RigidBody").velocity.x, d)]

MovedY(e, entity, d) ==
    [e EXCEPT !.components["Transform"][entity].y =
                  @ + MulDt(get_component(e, entity, "RigidBody").velocity.y, d)]

\* entity_rect_y: the box built after pos.y moved, from the position as the X
\* axis left it.
EntityRectY(moved, entity) == RectOf(get_component(moved, entity, "Transform"))

\* The solid colliders of other entities that the box of the entity overlaps.
Overlapped(e, entity, ws) ==
    {wall \in ws :
        Hits(e, entity, RectOf(get_component(e, entity, "Transform")), wall)}

\* PhysicsSystem.update, lines 200-201: the two entity lists, in any order.
PhysBegin(return, any_order) ==
    /\ pc = "physics"
    /\ movables' \in ListOrders(get_entities_with(ecs, <<"Transform", "RigidBody">>), any_order)
    /\ IF movables' = <<>>
       THEN walls' = <<>> /\ pc' = return
       ELSE /\ walls' \in ListOrders(get_entities_with(ecs, <<"Transform", "Collider">>),
                                      any_order)
            /\ pc' = "physics_integrate"
    /\ steps' = Append(steps, "PhysicsSystem.update")
    /\ UNCHANGED <<ecs, dt, store_hist, anim_hist, phys_hist, game>>

\* Lines 204-224 for the next entity of the list.
PhysIntegrate ==
    /\ pc = "physics_integrate"
    /\ LET entity == Head(movables)
       IN  ecs' = [ecs EXCEPT !.components["RigidBody"][entity] = Integrate(@, dt)]
    /\ last_move' = [NoMove EXCEPT
                        !.entity = Head(movables), !.axis = "v", !.d = dt,
                        !.v_in = get_component(ecs, Head(movables), "RigidBody").velocity,
                        !.a_in = get_component(ecs, Head(movables),
                                               "RigidBody").acceleration]
    /\ pc' = "physics_x"
    /\ UNCHANGED <<locals, store_hist, anim_hist, ticks, game, steps>>

\* Lines 226-240.
PhysMoveX ==
    /\ pc = "physics_x"
    /\ LET entity == Head(movables)
           moved == MovedX(ecs, entity, dt)
       IN  /\ ecs' = ResolveX(moved, entity,
                              RectOf(get_component(moved, entity, "Transform")), walls)
           /\ last_move' = [last_move EXCEPT
                               !.axis = "x",
                               !.x_moved = get_component(moved, entity, "Transform").x,
                               !.y_from = get_component(moved, entity, "Transform").y,
                               !.vx = get_component(ecs, entity, "RigidBody").velocity.x,
                               !.hits_x = Overlapped(moved, entity, Range(walls))]
    /\ pc' = "physics_y"
    /\ UNCHANGED <<locals, store_hist, anim_hist, ticks, game, steps>>

\* Lines 242-256, and the step to the next entity of the list.
PhysMoveY(return) ==
    /\ pc = "physics_y"
    /\ LET entity == Head(movables)
           moved == MovedY(ecs, entity, dt)
       IN  /\ ecs' = ResolveY(moved, entity, EntityRectY(moved, entity), walls)
           /\ last_move' = [last_move EXCEPT
                               !.axis = "y",
                               !.vy = get_component(ecs, entity, "RigidBody").velocity.y,
                               !.hits_y = Overlapped(moved, entity, Range(walls))]
    /\ movables' = Tail(movables)
    /\ walls' = IF Tail(movables) = <<>> THEN <<>> ELSE walls
    /\ pc' = IF Tail(movables) = <<>> THEN return ELSE "physics_integrate"
    /\ UNCHANGED <<dt, store_hist, anim_hist, ticks, game, steps>>

(***************************************************************************)
(* The PhysicsSystem driven by calls of update(dt), between which a caller *)
(* (the Input or AI system) sets the acceleration of a body.               *)
(***************************************************************************)
Px(n) == n * PosScale

\* The entity that moves: 4 by 4 pixels, with the RigidBody defaults and a
\* solid Collider.  Two more entities with Transform and Collider: one is
\* solid, 6 pixels high below y = 8, the other 6 pixels high below y = 14.
PhysWorld(start, x1, w1, x2, solid2) ==
    LET e0 == create_entity(create_entity(create_entity(ECSManager)))
        e1 == add_component(e0, 0, Transform(start[1], start[2], 4, 4))
        e2 == add_component(e1, 0, RigidBody(Vector2(0, 0), Vector2(0, 0), 10, 80))
        e3 == add_component(e2, 0, Collider(TRUE, "player"))
        e4 == add_component(e3, 1, Transform(x1, Px(8), w1, 6))
        e5 == add_component(e4, 1, Collider(TRUE, "wall"))
        e6 == add_component(e5, 2, Transform(x2, Px(14), 4, 6))
    IN  add_component(e6, 2, Collider(solid2, "wall"))

\* The start positions of the moving entity: left of the walls, right of them,
\* above the second one.
MoverStarts == {<<Px(4), Px(12)>>, <<Px(26), Px(12)>>, <<Px(14), Px(4)>>}

\* The first wall stands on a whole pixel or half a pixel further, as an entity
\* that has moved does; it is thinner or thicker than one step of the mover.
Wall1Xs == {Px(12), Px(12) + 1}

Wall1Widths == {4, 12}

Wall2Xs == {Px(14), Px(40)}

PhysDts == {100}

\* The directions a caller accelerates in; the acceleration is the unit vector
\* times max_speed * 10, as the InputSystem sets it.
Directions == {Vector2(1, 0), Vector2(-1, 0), Vector2(0, 1), Vector2(1, 1), Vector2(1, -1)}

PhysInit ==
    /\ ecs \in {PhysWorld(s, x1, w1, x2, solid2) :
                   s \in MoverStarts, x1 \in Wall1Xs, w1 \in Wall1Widths,
                   x2 \in Wall2Xs, solid2 \in BOOLEAN}
    /\ pc = "api"
    /\ dt = 0 /\ movables = <<>> /\ walls = <<>>
    /\ running = TRUE /\ cam = [x |-> 0, y |-> 0] /\ drawn = <<>>
    /\ steps = <<>>
    /\ flushed = {}
    /\ queued_kinds = EmptyMap
    /\ shown = EmptyMap
    /\ last_move = NoMove
    /\ ticks = 0

\* rb.acceleration = input_vec.normalize() * (rb.max_speed * 10)
SetAcceleration ==
    /\ pc = "api"
    /\ \E entity \in get_entities_with(ecs, <<"RigidBody">>), dir \in Directions :
          LET rb == get_component(ecs, entity, "RigidBody")
              a == ScaledTo(dir, rb.max_speed * 10 * PosScale)
          IN  /\ rb.acceleration # a
              /\ ecs' = [ecs EXCEPT !.components["RigidBody"][entity].acceleration = a]
    /\ UNCHANGED <<pc, locals, store_hist, anim_hist, phys_hist, game, steps>>

\* PhysicsSystem.update(dt) is called.
CallPhysicsUpdate ==
    /\ pc = "api"
    /\ ticks < MaxTicks
    /\ dt' \in PhysDts
    /\ ticks' = ticks + 1
    /\ pc' = "physics"
    /\ steps' = <<>>
    /\ UNCHANGED <<ecs, movables, walls, store_hist, anim_hist, last_move, game>>

PhysNext ==
    \/ SetAcceleration
    \/ CallPhysicsUpdate
    \/ PhysBegin("api", TRUE)
    \/ PhysIntegrate
    \/ PhysMoveX
    \/ PhysMoveY("api")

SpecPhys == PhysInit /\ [][PhysNext]_vars

(***************************************************************************)
(* Claims on the PhysicsSystem.                                            *)
(***************************************************************************)
\* Do the boxes of two Transforms overlap, as the positions are (not rounded)?
BoxesOverlap(a, b) ==
    /\ a.x < b.x + Px(b.width) /\ b.x < a.x + Px(a.width)
    /\ a.y < b.y + Px(b.height) /\ b.y < a.y + Px(a.height)

\* C9: when the X step of an entity moving right brings its box into overlap
\* with exactly one solid collider, and velocity.x * dt is less than the width
\* of that collider, then at the end of the entity's tick position.x + width is
\* the left edge of that wall, velocity.x is 0 and the two boxes do not overlap;
\* moving left, position.x is the right edge of the wall.
C9_SnapToWallEdge ==
    (last_move.axis = "y" /\ Cardinality(last_move.hits_x) = 1) =>
        LET entity == last_move.entity
            pos == get_component(ecs, entity, "Transform")
            rb == get_component(ecs, entity, "RigidBody")
            wall_t == get_component(ecs, CHOOSE w \in last_move.hits_x : TRUE, "Transform")
        IN  /\ (last_move.vx > 0 /\ MulDt(last_move.vx, dt) < Px(wall_t.width)) =>
                  /\ pos.x + Px(pos.width) = wall_t.x
                  /\ rb.velocity.x = 0
                  /\ ~BoxesOverlap(pos, wall_t)
            /\ (last_move.vx < 0 /\ MulDt(-last_move.vx, dt) < Px(wall_t.width)) =>
                  /\ pos.x = wall_t.x + Px(wall_t.width)
                  /\ rb.velocity.x = 0
                  /\ ~BoxesOverlap(pos, wall_t)

\* What holds of the code in the place of C9: the entity ends against the edge
\* of the rectangle of whole pixels that the wall is tested with.
SnapToRectEdge ==
    (last_move.axis = "y" /\ Cardinality(last_move.hits_x) = 1) =>
        LET entity == last_move.entity
            pos == get_component(ecs, entity, "Transform")
            rb == get_component(ecs, entity, "RigidBody")
            wall_rect == RectOf(get_component(ecs, CHOOSE w \in last_move.hits_x : TRUE,
                                              "Transform"))
        IN  /\ last_move.vx > 0 =>
                  /\ pos.x + Px(pos.width) = Px(wall_rect.left)
                  /\ rb.velocity.x = 0
                  /\ ~colliderect(RectOf(pos), wall_rect)
            /\ last_move.vx < 0 =>
                  /\ pos.x = Px(Right(wall_rect))
                  /\ rb.velocity.x = 0
                  /\ ~colliderect(RectOf(pos), wall_rect)

\* C10: when the moved box of an entity overlaps several solid colliders in one
\* axis step, then, whatever the order of the collider list, the position after
\* that step overlaps none of the solid colliders tested.
C10_NoResidualOverlap ==
    LET entity == last_move.entity
        tested == get_entities_with(ecs, <<"Transform", "Collider">>)
    IN  /\ (last_move.axis = "x" /\ Cardinality(last_move.hits_x) >= 2) =>
               Overlapped(ecs, entity, tested) = {}
        /\ (last_move.axis = "y" /\ Cardinality(last_move.hits_y) >= 2) =>
               Overlapped(ecs, entity, tested) = {}

\* The entity of the last axis step has slid: its X step overlapped a solid
\* collider and its Y step, at the corrected x, overlapped none.
Slid == last_move.axis = "y" /\ last_move.hits_x # {} /\ last_move.hits_y = {}

\* The x the X step snaps to against the box of wall, for a velocity.x of vx.
SnapX(e, entity, wall, vx) ==
    LET wall_rect == RectOf(get_component(e, wall, "Transform"))
    IN  IF vx > 0
        THEN (wall_rect.left - get_component(e, entity, "Transform").width) * PosScale
        ELSE Right(wall_rect) * PosScale

\* C11: axis separation gives wall sliding.  In a tick where the X step of an
\* entity overlaps a solid collider and its Y step, evaluated at the corrected
\* x, overlaps none: velocity.x is zero and x stands at the edge of a collider
\* the X step overlapped, while y has advanced by velocity.y * dt and
\* velocity.y is as it was before the Y step.
C11_WallSliding ==
    Slid =>
        LET entity == last_move.entity
            pos == get_component(ecs, entity, "Transform")
            rb == get_component(ecs, entity, "RigidBody")
        IN  /\ rb.velocity.x = 0
            /\ \E wall \in last_move.hits_x : pos.x = SnapX(ecs, entity, wall, last_move.vx)
            /\ pos.y = last_move.y_from + MulDt(last_move.vy, last_move.d)
            /\ rb.velocity.y = last_move.vy

\* What holds of the code in the place of C11: an entity that moves on X into
\* a solid collider slides; one that the X step finds inside a collider with
\* velocity.x = 0 is left where it is.
SlidingWhenMoving ==
    Slid =>
        LET entity == last_move.entity
            pos == get_component(ecs, entity, "Transform")
            rb == get_component(ecs, entity, "RigidBody")
        IN  /\ rb.velocity.x = 0
            /\ IF last_move.vx # 0
               THEN \E wall \in last_move.hits_x :
                       pos.x = SnapX(ecs, entity, wall, last_move.vx)
               ELSE pos.x = last_move.x_moved
            /\ pos.y = last_move.y_from + MulDt(last_move.vy, last_move.d)
            /\ rb.velocity.y = last_move.vy

\* An entity slid along a wall: blocked on X, the x its X step reached would
\* have overlapped a collider on the Y step too, and it moved on Y.
SlidAlongWall ==
    /\ Slid
    /\ last_move.vx # 0
    /\ last_move.vy # 0
    /\ get_component(ecs, last_move.entity, "Transform").y # last_move.y_from
    /\ get_component(ecs, last_move.entity, "Transform").x # last_move.x_moved
    /\ \E wall \in last_move.hits_x :
          colliderect(RectOf([get_component(ecs, last_move.entity, "Transform")
                                  EXCEPT !.x = last_move.x_moved]),
                      RectOf(get_component(ecs, wall, "Transform")))

\* The velocity of the entity of the running tick before the clamp, from the
\* velocity and the acceleration the tick began with.
Unclamped ==
    Accelerated([get_component(ecs, last_move.entity, "RigidBody") EXCEPT
                    !.velocity = last_move.v_in, !.acceleration = last_move.a_in],
                last_move.d)

Abs(n) == IF n < 0 THEN -n ELSE n

Sign(n) == IF n > 0 THEN 1 ELSE IF n < 0 THEN -1 ELSE 0

\* C13: after the clamp step of a PhysicsSystem.update tick the speed of the
\* entity is at most max_speed; when the integrated velocity v had
\* |v| > max_speed the clamped velocity has the length max_speed and the
\* direction of v, both to the resolution of a velocity component (one unit:
\* the length is more than max_speed - 2 units, the components have the signs
\* of those of v, and the cross product with v is at most |v.x| + |v.y|); when
\* |v| <= max_speed the clamp leaves the velocity unchanged.
C13_SpeedClamp ==
    last_move.axis = "v" =>
        LET rb == get_component(ecs, last_move.entity, "RigidBody")
            max == rb.max_speed * PosScale
            v == Unclamped
            w == rb.velocity
        IN  /\ LengthSquared(w) <= max * max
            /\ IF LengthSquared(v) > max * max
               THEN /\ LengthSquared(w) > (max - 2) * (max - 2)
                    /\ Sign(w.x) = Sign(v.x) /\ Sign(w.y) = Sign(v.y)
                    /\ Abs(v.x * w.y - v.y * w.x) <= Abs(v.x) + Abs(v.y)
               ELSE w = v

\* The clamp step shortened a diagonal velocity.
C13_Witness ==
    /\ last_move.axis = "v"
    /\ LengthSquared(Unclamped) >
          (get_component(ecs, last_move.entity, "RigidBody").max_speed * PosScale)
          * (get_component(ecs, last_move.entity, "RigidBody").max_speed * PosScale)
    /\ Unclamped.x # 0 /\ Unclamped.y # 0
    /\ Abs(Unclamped.x) # Abs(Unclamped.y)

(***************************************************************************)
(* The PhysicsSystem ticking on a body in motion that nothing accelerates. *)
(***************************************************************************)
\* The world of PhysWorld with the moving entity at a velocity.
DecayWorld(start, v) ==
    [PhysWorld(start, Px(12), 4, Px(14), TRUE) EXCEPT
        !.components["RigidBody"][0].velocity = v]

\* Velocities within max_speed, in 1/PosScale pixel a second.
StartVelocities ==
    {Vector2(160, 0), Vector2(-113, 113), Vector2(40, -150), Vector2(-3, -1),
     Vector2(0, 100)}

DecayDts == {50, 100}

DecayInit ==
    /\ ecs \in {DecayWorld(s, v) : s \in MoverStarts, v \in StartVelocities}
    /\ pc = "api"
    /\ dt = 0 /\ movables = <<>> /\ walls = <<>>
    /\ running = TRUE /\ cam = [x |-> 0, y |-> 0] /\ drawn = <<>>
    /\ steps = <<>>
    /\ flushed = {}
    /\ queued_kinds = EmptyMap
    /\ shown = EmptyMap
    /\ last_move = NoMove
    /\ ticks = 0

\* PhysicsSystem.update(dt) is called, any number of times; ticks counts the
\* first MaxTicks calls.
CallPhysicsDecay ==
    /\ pc = "api"
    /\ dt' \in DecayDts
    /\ ticks' = IF ticks < MaxTicks THEN ticks + 1 ELSE ticks
    /\ pc' = "physics"
    /\ steps' = <<>>
    /\ UNCHANGED <<ecs, movables, walls, store_hist, anim_hist, last_move, game>>

DecayNext ==
    \/ CallPhysicsDecay
    \/ PhysBegin("api", TRUE)
    \/ PhysIntegrate
    \/ PhysMoveX
    \/ PhysMoveY("api")

\* update is called again and again, and each call runs to its end.
SpecDecay == DecayInit /\ [][DecayNext]_vars /\ WF_vars(DecayNext)

BodyVelocity == get_component(ecs, 0, "RigidBody").velocity

\* C12: for a movable entity whose acceleration stays zero on every tick, the
\* velocity reaches exactly (0,0) after finitely many PhysicsSystem.update
\* ticks and then stays (0,0); no step of the decay changes the sign of a
\* velocity component (a component keeps its sign or becomes 0), and the speed
\* never increases.
C12_FrictionConvergence ==
    /\ <>[](BodyVelocity = Vector2(0, 0))
    /\ [][LET v == BodyVelocity
              w == BodyVelocity'
          IN  /\ Sign(w.x) \in {Sign(v.x), 0}
              /\ Sign(w.y) \in {Sign(v.y), 0}
              /\ LengthSquared(w) <= LengthSquared(v)]_vars

\* A body came to rest out of a tick that began at a velocity other than the
\* one it started with: the decay took several ticks.
C12_Witness ==
    /\ pc = "api"
    /\ BodyVelocity = Vector2(0, 0)
    /\ last_move.a_in = Vector2(0, 0)
    /\ last_move.v_in # Vector2(0, 0)
    /\ last_move.v_in \notin StartVelocities
    /\ last_move.hits_x = {} /\ last_move.hits_y = {}

(***************************************************************************)
(* AIBehavior, the InputSystem, the AISystem and the RenderSystem.         *)
(* wait_timer is in milliseconds, waypoints in 1/PosScale pixel.           *)
(***************************************************************************)
AIBehavior(state, patrol_points) ==
    [kind |-> "AIBehavior", state |-> state, patrol_points |-> patrol_points,
     patrol_index |-> 0, wait_timer |-> 0]

\* The input vector of the pressed keys: RIGHT wins over LEFT, DOWN over UP.
InputVec(keys) ==
    Vector2(IF "RIGHT" \in keys THEN 1 ELSE IF "LEFT" \in keys THEN -1 ELSE 0,
            IF "DOWN" \in keys THEN 1 ELSE IF "UP" \in keys THEN -1 ELSE 0)

\* The facing chosen as the AISystem does on a tie: the vertical axis first.
InputFacingVerticalFirst(input_vec, facing) ==
    IF input_vec.y # 0
    THEN (IF input_vec.y > 0 THEN "DOWN" ELSE "UP")
    ELSE IF input_vec.x # 0
         THEN (IF input_vec.x > 0 THEN "RIGHT" ELSE "LEFT")
         ELSE facing

\* Lines 150-153: the facing for an input vector, the horizontal axis first.
InputFacing(input_vec, facing) ==
    IF input_vec.x # 0
    THEN (IF input_vec.x > 0 THEN "RIGHT" ELSE "LEFT")
    ELSE IF input_vec.y # 0
         THEN (IF input_vec.y > 0 THEN "DOWN" ELSE "UP")
         ELSE facing

\* InputSystem.update for one entity: its RigidBody and MovementState afterwards.
InputOne(rb, state, keys) ==
    LET input_vec == InputVec(keys)
    IN  IF input_vec # Vector2(0, 0)
        THEN [rb |-> [rb EXCEPT !.acceleration =
                                    ScaledTo(input_vec, rb.max_speed * 10 * PosScale)],
              state |-> [state EXCEPT
                            !.current_state = "WALK",
                            !.facing = InputFacing(input_vec, @)]]
        ELSE [rb |-> rb, state |-> [state EXCEPT !.current_state = "IDLE"]]

\* InputSystem.update over the store; each iteration writes the components of
\* its own entity only.
InputSystemUpdate(e, keys) ==
    LET entities == get_entities_with(e, <<"InputControl", "RigidBody", "MovementState">>)
        out(entity) == InputOne(get_component(e, entity, "RigidBody"),
                                get_component(e, entity, "MovementState"), keys)
    IN  IF entities = {} THEN e
        ELSE [e EXCEPT
                 !.components["RigidBody"] =
                     [x \in DOMAIN @ |-> IF x \in entities THEN out(x).rb ELSE @[x]],
                 !.components["MovementState"] =
                     [x \in DOMAIN @ |-> IF x \in entities THEN out(x).state ELSE @[x]]]

\* The wait at a waypoint ends as soon as the timer reaches a second.
WaitOverEager(wait_timer) == wait_timer >= 1000

\* ai.wait_timer > 1.0
WaitOver(wait_timer) == wait_timer > 1000

\* The facing chosen as the InputSystem does: horizontal whenever x is not 0.
AIFacingHorizontalFirst(direction) ==
    IF direction.x # 0
    THEN (IF direction.x > 0 THEN "RIGHT" ELSE "LEFT")
    ELSE (IF direction.y > 0 THEN "DOWN" ELSE "UP")

\* Lines 190-193: the facing of an entity walking in a direction; normalizing
\* keeps the order of |x| and |y| and the signs.
AIFacing(direction) ==
    LET abs_x == IF direction.x < 0 THEN -direction.x ELSE direction.x
        abs_y == IF direction.y < 0 THEN -direction.y ELSE direction.y
    IN  IF abs_x > abs_y
        THEN (IF direction.x > 0 THEN "RIGHT" ELSE "LEFT")
        ELSE (IF direction.y > 0 THEN "DOWN" ELSE "UP")

\* Every AIBehavior in PATROL is taken to have a waypoint.
PatrolsAlways(ai) == ai.state = "PATROL"

\* ai.state == "PATROL" and ai.patrol_points
Patrols(ai) == ai.state = "PATROL" /\ ai.patrol_points # <<>>

\* ai.patrol_points[ai.patrol_index] raises IndexError.
AIFaults(ai) == Patrols(ai) /\ ai.patrol_index + 1 \notin DOMAIN ai.patrol_points

\* AISystem.update for one entity: its AIBehavior, RigidBody and MovementState
\* afterwards.
AIOne(ai, pos, rb, state, d) ==
    IF Patrols(ai) /\ ~AIFaults(ai)
    THEN LET target == ai.patrol_points[ai.patrol_index + 1]
             diff == Vector2(target[1] - pos.x, target[2] - pos.y)
         IN  IF LengthSquared(diff) < (5 * PosScale) * (5 * PosScale)
             THEN LET waited == ai.wait_timer + d
                  IN  [ai |-> IF WaitOver(waited)
                              THEN [ai EXCEPT !.wait_timer = 0,
                                              !.patrol_index = (@ + 1) % Len(ai.patrol_points)]
                              ELSE [ai EXCEPT !.wait_timer = waited],
                       rb |-> rb,
                       state |-> [state EXCEPT !.current_state = "IDLE"]]
             ELSE [ai |-> ai,
                       rb |-> [rb EXCEPT !.acceleration =
                                             ScaledTo(diff, rb.max_speed * 5 * PosScale)],
                       state |-> [state EXCEPT
                                     !.current_state = "WALK",
                                     !.facing = AIFacing(diff)]]
    ELSE [ai |-> ai, rb |-> rb, state |-> state]

AISystemUpdate(e, d) ==
    LET entities == get_entities_with(e, <<"AIBehavior", "RigidBody", "Transform",
                                           "MovementState">>)
        out(entity) == AIOne(get_component(e, entity, "AIBehavior"),
                             get_component(e, entity, "Transform"),
                             get_component(e, entity, "RigidBody"),
                             get_component(e, entity, "MovementState"), d)
    IN  IF entities = {} THEN e
        ELSE [e EXCEPT
                 !.components["AIBehavior"] =
                     [x \in DOMAIN @ |-> IF x \in entities THEN out(x).ai ELSE @[x]],
                 !.components["RigidBody"] =
                     [x \in DOMAIN @ |-> IF x \in entities THEN out(x).rb ELSE @[x]],
                 !.components["MovementState"] =
                     [x \in DOMAIN @ |-> IF x \in entities THEN out(x).state ELSE @[x]]]

\* The sort key of RenderSystem.update, and its order.
RenderKey(e, entity) ==
    <<get_component(e, entity, "PaperSprite").z_index,
      get_component(e, entity, "Transform").y>>

KeyLess(a, b) == a[1] < b[1] \/ (a[1] = b[1] /\ a[2] < b[2])

\* list.sort(key=...) is stable: an element goes after every element whose key
\* is not greater than its own.
RECURSIVE InsertByKey(_, _, _)
InsertByKey(e, sorted, entity) ==
    IF sorted = <<>> THEN <<entity>>
    ELSE IF KeyLess(RenderKey(e, sorted[Len(sorted)]), RenderKey(e, entity))
            \/ RenderKey(e, sorted[Len(sorted)]) = RenderKey(e, entity)
         THEN Append(sorted, entity)
         ELSE Append(InsertByKey(e, SubSeq(sorted, 1, Len(sorted) - 1), entity),
                     sorted[Len(sorted)])

RECURSIVE SortByKey(_, _, _)
SortByKey(e, sorted, rest) ==
    IF rest = <<>> THEN sorted
    ELSE SortByKey(e, InsertByKey(e, sorted, Head(rest)), Tail(rest))

\* RenderSystem.update: the entities drawn, in order; a sprite without frames
\* for its current animation is skipped.
RenderSystemUpdate(e, renderables) ==
    LET Drawable(entity) == ~NoFrames(get_component(e, entity, "PaperSprite"))
    IN  SelectSeq(SortByKey(e, <<>>, renderables), Drawable)

(***************************************************************************)
(* The factories and Game.                                                 *)
(***************************************************************************)
INTERNAL_WIDTH == 320
INTERNAL_HEIGHT == 240

create_wall(e, x, y, w, h) ==
    LET entity == e.next_entity_id
        e1 == add_component(create_entity(e), entity, Transform(Px(x), Px(y), w, h))
        e2 == add_component(e1, entity, Collider(TRUE, "wall"))
    IN  add_component(e2, entity,
                      PaperSprite([name \in {<<"default">>} |-> FrameList(1)],
                                  <<"default">>, "LOOP", 0))

create_player(e, x, y) ==
    LET entity == e.next_entity_id
        e1 == add_component(create_entity(e), entity, Transform(Px(x), Px(y), 16, 16))
        e2 == add_component(e1, entity, RigidBody(Vector2(0, 0), Vector2(0, 0), 12, 90))
        e3 == add_component(e2, entity, Collider(TRUE, "player"))
        e4 == add_component(e3, entity, InputControl)
        e5 == add_component(e4, entity, MovementState("IDLE", "DOWN"))
    IN  add_component(e5, entity, PaperSprite(PlayerAnims, <<"default">>, "LOOP", 0))

create_monster(e, x, y) ==
    LET entity == e.next_entity_id
        patrol == <<<<Px(x), Px(y)>>, <<Px(x + 60), Px(y)>>, <<Px(x + 60), Px(y + 60)>>,
                    <<Px(x), Px(y + 60)>>>>
        e1 == add_component(create_entity(e), entity, Transform(Px(x), Px(y), 16, 16))
        e2 == add_component(e1, entity, RigidBody(Vector2(0, 0), Vector2(0, 0), 10, 40))
        e3 == add_component(e2, entity, Collider(TRUE, "monster"))
        e4 == add_component(e3, entity, MovementState("IDLE", "DOWN"))
        e5 == add_component(e4, entity, AIBehavior("PATROL", patrol))
    IN  add_component(e5, entity, PaperSprite(MonsterAnims, <<"default">>, "LOOP", 0))

create_ghost(e, x, y) ==
    LET entity == e.next_entity_id
        e1 == add_component(create_entity(e), entity, Transform(Px(x), Px(y), 16, 16))
    IN  add_component(e1, entity,
                      PaperSprite([name \in {<<"default">>} |-> FrameList(1)],
                                  <<"default">>, "PINGPONG", 1))

\* Game.load_level; the player is the third entity created.
load_level ==
    LET e1 == create_wall(ECSManager, 50, 50, 200, 32)
        e2 == create_wall(e1, 50, 82, 32, 100)
        e3 == create_player(e2, 100, 100)
        e4 == create_monster(e3, 180, 120)
        e5 == create_monster(e4, 80, 200)
    IN  create_ghost(e5, 200, 150)

player_id == 2

\* The dt of a frame in milliseconds: clock.tick(FPS) waits for 1000/60 ms and
\* returns more when the frame was slow. The sets of keys held down.
GameDts == {16, 100}

GameKeys == {{}, {"RIGHT"}, {"LEFT", "UP"}, {"DOWN", "LEFT", "RIGHT"}}

GameInit ==
    /\ ecs = load_level
    /\ pc = "frame"
    /\ dt = 0 /\ movables = <<>> /\ walls = <<>>
    /\ running = TRUE /\ cam = [x |-> 0, y |-> 0] /\ drawn = <<>>
    /\ steps = <<>>
    /\ flushed = {}
    /\ queued_kinds = EmptyMap
    /\ shown = [entity \in get_entities_with(ecs, <<"PaperSprite">>) |-> <<>>]
    /\ last_move = NoMove
    /\ ticks = 0

NextStepSwapped(p) ==
    CASE p = "frame" -> "input"
      [] p = "input" -> "ai"
      [] p = "ai" -> "physics"
      [] p = "physics" -> "anim"
      [] p = "anim" -> "camera"
      [] p = "camera" -> "destroy"
      [] p = "destroy" -> "render"
      [] p = "render" -> "frame"

\* The order of the statements of the loop body of Game.run.
NextStep(p) ==
    CASE p = "frame" -> "input"
      [] p = "input" -> "ai"
      [] p = "ai" -> "physics"
      [] p = "physics" -> "anim"
      [] p = "anim" -> "destroy"
      [] p = "destroy" -> "camera"
      [] p = "camera" -> "render"
      [] p = "render" -> "frame"

\* The loop test, clock.tick and the event loop: a QUIT event clears running,
\* and the body of the loop still runs to its end.
GameFrame ==
    /\ pc = "frame"
    /\ running
    /\ ticks < MaxGameFrames
    /\ dt' \in GameDts
    /\ \E quit \in BOOLEAN : running' = ~quit
    /\ ticks' = ticks + 1
    /\ steps' = <<>>
    /\ pc' = NextStep("frame")
    /\ UNCHANGED <<ecs, movables, walls, cam, drawn, store_hist, anim_hist, last_move>>

\* The loop ends: pygame.quit(), sys.exit().
GameExit ==
    /\ pc = "frame"
    /\ ~running
    /\ pc' = "exit"
    /\ UNCHANGED <<ecs, locals, game, steps, store_hist, anim_hist, phys_hist>>

GameInput ==
    /\ pc = "input"
    /\ \E keys \in GameKeys : ecs' = InputSystemUpdate(ecs, keys)
    /\ steps' = Append(steps, "InputSystem.update")
    /\ pc' = NextStep("input")
    /\ UNCHANGED <<locals, game, store_hist, anim_hist, phys_hist>>

GameAI ==
    /\ pc = "ai"
    /\ ecs' = AISystemUpdate(ecs, dt)
    /\ steps' = Append(steps, "AISystem.update")
    /\ pc' = IF \E entity \in get_entities_with(ecs, <<"AIBehavior", "RigidBody",
                                                       "Transform", "MovementState">>) :
                   AIFaults(get_component(ecs, entity, "AIBehavior"))
             THEN "fault"
             ELSE NextStep("ai")
    /\ UNCHANGED <<locals, game, store_hist, anim_hist, phys_hist>>

GameDestroy ==
    /\ pc = "destroy"
    /\ ecs' = process_destruction(ecs)
    /\ flushed' = flushed \cup Range(ecs.entities_to_destroy)
    /\ queued_kinds' = EmptyMap
    /\ steps' = Append(steps, "process_destruction")
    /\ pc' = NextStep("destroy")
    /\ UNCHANGED <<locals, game, anim_hist, phys_hist>>

GameCamera ==
    /\ pc = "camera"
    /\ LET p_trans == get_component(ecs, player_id, "Transform")
       IN  cam' = IF p_trans # None
                  THEN [x |-> p_trans.x - Px(INTERNAL_WIDTH \div 2),
                        y |-> p_trans.y - Px(INTERNAL_HEIGHT \div 2)]
                  ELSE [x |-> 0, y |-> 0]
    /\ steps' = Append(steps, "camera")
    /\ pc' = NextStep("camera")
    /\ UNCHANGED <<ecs, locals, running, drawn, store_hist, anim_hist, phys_hist>>

GameRender ==
    /\ pc = "render"
    /\ \E renderables \in ListOrders(get_entities_with(ecs, <<"Transform", "PaperSprite">>),
                                    FALSE) :
          drawn' = RenderSystemUpdate(ecs, renderables)
    /\ steps' = Append(steps, "RenderSystem.update")
    /\ pc' = NextStep("render")
    /\ UNCHANGED <<ecs, locals, running, cam, store_hist, anim_hist, phys_hist>>

GameNext ==
    \/ GameFrame
    \/ GameExit
    \/ GameInput
    \/ GameAI
    \/ PhysBegin(NextStep("physics"), FALSE)
    \/ PhysIntegrate
    \/ PhysMoveX
    \/ PhysMoveY(NextStep("physics"))
    \/ AnimPhaseA
    \/ AnimPhaseB(NextStep("anim"))
    \/ GameDestroy
    \/ GameCamera
    \/ GameRender

SpecGame == GameInit /\ [][GameNext]_vars

(***************************************************************************)
(* Claims on Game.run.                                                     *)
(***************************************************************************)
FrameSteps ==
    <<"InputSystem.update", "AISystem.update", "PhysicsSystem.update",
      "AnimationSystem.update", "process_destruction", "camera", "RenderSystem.update">>

\* C4: in every frame of Game.run the steps InputSystem.update, AISystem.update,
\* PhysicsSystem.update, AnimationSystem.update, process_destruction, camera
\* update, RenderSystem.update run exactly once each and in this order: at any
\* moment the steps begun in the frame are the first ones of that list, a step
\* begins only when the one before it has finished, and a frame that ends, or
\* after which the loop exits, has run them all.
C4_FrameOrder ==
    /\ Len(steps) <= Len(FrameSteps)
    /\ steps = SubSeq(FrameSteps, 1, Len(steps))
    /\ (pc \in {"frame", "exit"} /\ ticks > 0) => steps = FrameSteps
    /\ pc \in {"physics_integrate", "physics_x", "physics_y"} =>
          steps[Len(steps)] = "PhysicsSystem.update"
    /\ pc = "anim_frames" => steps[Len(steps)] = "AnimationSystem.update"
    /\ pc \in {"input", "ai", "physics", "anim", "destroy", "camera", "render"} =>
          /\ movables = <<>>
          /\ Len(steps) < Len(FrameSteps)
          /\ pc = <<"input", "ai", "physics", "anim", "destroy", "camera",
                    "render">>[Len(steps) + 1]

\* The second frame has run all of its steps, after a QUIT event came in it.
C4_Witness ==
    /\ pc = "exit"
    /\ ticks = 2
    /\ steps = FrameSteps
    /\ drawn # <<>>

(***************************************************************************)
(* The AISystem and the PhysicsSystem ticking on one patrolling monster.   *)
(***************************************************************************)
MaxAITicks == 12    \* the ticks of a patrol followed

\* A monster made by create_monster at (0,0), with the waypoints given in
\* pixels.
AIWorld(points) ==
    [create_monster(ECSManager, 0, 0) EXCEPT
        !.components["AIBehavior"][0].patrol_points =
            [i \in 1..Len(points) |-> <<Px(points[i][1]), Px(points[i][2])>>]]

\* Waypoint lists: the patrol between (0,0) and (10,0), none, and legs that
\* are diagonal, steeper than diagonal and flatter than it.
PatrolLists ==
    {<<<<0, 0>>, <<10, 0>>>>,
     <<>>,
     <<<<0, 0>>, <<8, 8>>>>,
     <<<<0, 0>>, <<-6, -10>>>>,
     <<<<0, 0>>, <<-10, 4>>>>}

\* A slow frame and a stalled one, in milliseconds.
AIDts == {100, 400}

AIInit ==
    /\ ecs \in {AIWorld(points) : points \in PatrolLists}
    /\ pc = "api"
    /\ dt = 0 /\ movables = <<>> /\ walls = <<>>
    /\ running = TRUE /\ cam = [x |-> 0, y |-> 0] /\ drawn = <<>>
    /\ steps = <<>>
    /\ flushed = {}
    /\ queued_kinds = EmptyMap
    /\ shown = EmptyMap
    /\ last_move = NoMove
    /\ ticks = 0

\* A tick: AISystem.update(dt), then PhysicsSystem.update(dt), as Game.run
\* calls them.
CallAITick ==
    /\ pc = "api"
    /\ ticks < MaxAITicks
    /\ dt' \in AIDts
    /\ ticks' = ticks + 1
    /\ pc' = "ai"
    /\ steps' = <<>>
    /\ UNCHANGED <<ecs, movables, walls, store_hist, anim_hist, last_move, game>>

AINext ==
    \/ CallAITick
    \/ GameAI
    \/ PhysBegin("api", TRUE)
    \/ PhysIntegrate
    \/ PhysMoveX
    \/ PhysMoveY("api")

SpecAI == AIInit /\ [][AINext]_vars

\* The step is AISystem.update.
AIStep == pc = "ai" /\ pc' # "ai"

\* The vector from the entity to its active waypoint.
ToWaypoint(e, entity) ==
    LET ai == get_component(e, entity, "AIBehavior")
        pos == get_component(e, entity, "Transform")
        target == ai.patrol_points[ai.patrol_index + 1]
    IN  Vector2(target[1] - pos.x, target[2] - pos.y)

\* The entity is less than 5 pixels from its active waypoint.
Arrived(e, entity) ==
    LengthSquared(ToWaypoint(e, entity)) < (5 * PosScale) * (5 * PosScale)

Patrolling(e, entity) ==
    /\ get_component(e, entity, "AIBehavior").state = "PATROL"
    /\ get_component(e, entity, "AIBehavior").patrol_points # <<>>

\* C14: for an AI entity in PATROL with a non-empty waypoint list: on an AI
\* tick where its distance to the active waypoint is < 5, the motion state
\* becomes IDLE and wait_timer grows by dt, except that on the tick where it
\* exceeds 1.0 (strictly) it is reset to 0 and patrol_index becomes
\* (patrol_index + 1) mod the waypoint count, the index being unchanged
\* otherwise; on a tick where the distance is >= 5 the motion state becomes
\* WALK, the acceleration is set to the direction toward the waypoint at the
\* length max_speed * 5 (to the resolution of a component), and patrol_index
\* and wait_timer are unchanged; no step that is not an AI tick changes the
\* AIBehavior.
C14_PatrolCycle ==
    [][\A entity \in get_entities_with(ecs, <<"AIBehavior", "RigidBody", "Transform",
                                             "MovementState">>) :
          LET ai == get_component(ecs, entity, "AIBehavior")
              ai2 == get_component(ecs', entity, "AIBehavior")
              rb2 == get_component(ecs', entity, "RigidBody")
              state2 == get_component(ecs', entity, "MovementState")
              diff == ToWaypoint(ecs, entity)
              gain == get_component(ecs, entity, "RigidBody").max_speed * 5 * PosScale
              count == Len(ai.patrol_points)
          IN  IF AIStep /\ Patrolling(ecs, entity)
              THEN IF Arrived(ecs, entity)
                   THEN /\ state2.current_state = "IDLE"
                        /\ IF ai.wait_timer + dt > 1000
                           THEN /\ ai2.wait_timer = 0
                                /\ ai2.patrol_index = (ai.patrol_index + 1) % count
                           ELSE /\ ai2.wait_timer = ai.wait_timer + dt
                                /\ ai2.patrol_index = ai.patrol_index
                   ELSE /\ state2.current_state = "WALK"
                        /\ LengthSquared(rb2.acceleration) <= gain * gain
                        /\ LengthSquared(rb2.acceleration) > (gain - 2) * (gain - 2)
                        /\ Sign(rb2.acceleration.x) = Sign(diff.x)
                        /\ Sign(rb2.acceleration.y) = Sign(diff.y)
                        /\ Abs(diff.x * rb2.acceleration.y - diff.y * rb2.acceleration.x)
                              <= Abs(diff.x) + Abs(diff.y)
                        /\ ai2.patrol_index = ai.patrol_index
                        /\ ai2.wait_timer = ai.wait_timer
              ELSE AIStep \/ ai2 = ai]_vars

\* The patrol between (0,0) and (10,0): the monster has gone to (10,0), waited
\* there for more than a second, and with the index back at 0 it walks, en
\* route to (0,0).
C14_Witness ==
    /\ pc = "api"
    /\ get_component(ecs, 0, "AIBehavior").patrol_points = <<<<0, 0>>, <<Px(10), 0>>>>
    /\ get_component(ecs, 0, "AIBehavior").patrol_index = 0
    /\ get_component(ecs, 0, "Transform").x > Px(5)
    /\ get_component(ecs, 0, "MovementState").current_state = "WALK"
    /\ get_component(ecs, 0, "RigidBody").velocity.x < 0

\* C19: an AI entity whose waypoint list is empty stays idle indefinitely:
\* every AISystem.update tick completes without a fault, its motion state is
\* IDLE after each tick, and the tick sets no acceleration and changes neither
\* patrol_index nor wait_timer.
C19_EmptyPatrolIdle ==
    /\ [](\A entity \in get_entities_with(ecs, <<"AIBehavior", "MovementState">>) :
             get_component(ecs, entity, "AIBehavior").patrol_points = <<>> =>
                /\ pc # "fault"
                /\ get_component(ecs, entity, "MovementState").current_state = "IDLE")
    /\ [][\A entity \in get_entities_with(ecs, <<"AIBehavior", "RigidBody", "Transform",
                                                "MovementState">>) :
             (AIStep /\ get_component(ecs, entity, "AIBehavior").patrol_points = <<>>) =>
                /\ get_component(ecs', entity, "RigidBody").acceleration =
                      get_component(ecs, entity, "RigidBody").acceleration
                /\ get_component(ecs', entity, "AIBehavior") =
                      get_component(ecs, entity, "AIBehavior")]_vars

\* The monster without waypoints has been through several ticks.
C19_Witness ==
    /\ pc = "api"
    /\ ticks >= 3
    /\ get_component(ecs, 0, "AIBehavior").patrol_points = <<>>
    /\ get_component(ecs, 0, "MovementState").current_state = "IDLE"
    /\ get_component(ecs, 0, "Transform").x = 0

AllKeys == SUBSET {"LEFT", "RIGHT", "UP", "DOWN"}

\* C20: when an AI entity walks toward its waypoint, facing is chosen by
\* magnitude: RIGHT/LEFT by the sign of direction.x when
\* |direction.x| > |direction.y|, DOWN/UP by the sign of direction.y when
\* |direction.y| > |direction.x|, and on an exact tie the vertical axis; the
\* InputSystem, for every diagonal input vector, picks the horizontal facing.
C20_AIFacingByMagnitude ==
    /\ [][\A entity \in get_entities_with(ecs, <<"AIBehavior", "RigidBody", "Transform",
                                                "MovementState">>) :
             (AIStep /\ Patrolling(ecs, entity) /\ ~Arrived(ecs, entity)) =>
                LET direction == ToWaypoint(ecs, entity)
                    facing == get_component(ecs', entity, "MovementState").facing
                IN  /\ Abs(direction.x) > Abs(direction.y) =>
                          facing = IF direction.x > 0 THEN "RIGHT" ELSE "LEFT"
                    /\ Abs(direction.y) > Abs(direction.x) =>
                          facing = IF direction.y > 0 THEN "DOWN" ELSE "UP"
                    /\ Abs(direction.y) = Abs(direction.x) =>
                          facing = IF direction.y > 0 THEN "DOWN" ELSE "UP"]_vars
    /\ [](\A keys \in AllKeys :
             (InputVec(keys).x # 0 /\ InputVec(keys).y # 0) =>
                InputOne(RigidBody(Vector2(0, 0), Vector2(0, 0), 12, 90),
                         MovementState("IDLE", "DOWN"), keys).state.facing
                   = IF InputVec(keys).x > 0 THEN "RIGHT" ELSE "LEFT")

\* The AI tick has just faced a monster down its exactly diagonal leg.
C20_Witness ==
    /\ pc = "physics"
    /\ Patrolling(ecs, 0) /\ ~Arrived(ecs, 0)
    /\ Abs(ToWaypoint(ecs, 0).x) = Abs(ToWaypoint(ecs, 0).y)
    /\ get_component(ecs, 0, "MovementState").current_state = "WALK"
    /\ get_component(ecs, 0, "MovementState").facing = "DOWN"
    /\ get_component(ecs, 0, "RigidBody").acceleration # Vector2(0, 0)

(***************************************************************************)
(* The RenderSystem drawing a store of sprites that move between frames.   *)
(***************************************************************************)
\* Three entities with Transform and a one-frame sprite, at the rows ys and on
\* the layers zs.
RenderWorld(ys, zs) ==
    LET Sprited(e, entity) ==
            add_component(
                add_component(e, entity, Transform(Px(10), ys[entity + 1], 16, 16)),
                entity,
                PaperSprite([name \in {<<"default">>} |-> FrameList(1)],
                            <<"default">>, "LOOP", zs[entity + 1]))
        e0 == create_entity(create_entity(create_entity(ECSManager)))
    IN  Sprited(Sprited(Sprited(e0, 0), 1), 2)

RenderRows == {Px(10), Px(20)}

RenderLayers == {0, 1}

RenderInit ==
    /\ ecs \in {RenderWorld(ys, zs) :
                   ys \in [1..3 -> RenderRows], zs \in [1..3 -> RenderLayers]}
    /\ pc = "api"
    /\ dt = 0 /\ movables = <<>> /\ walls = <<>>
    /\ running = TRUE /\ cam = [x |-> 0, y |-> 0] /\ drawn = <<>>
    /\ steps = <<>>
    /\ flushed = {}
    /\ queued_kinds = EmptyMap
    /\ shown = EmptyMap
    /\ last_move = NoMove
    /\ ticks = 0

\* Between two frames an entity moves to another row.
MoveSprite ==
    /\ pc = "api"
    /\ drawn = <<>>
    /\ \E entity \in get_entities_with(ecs, <<"Transform">>), y \in RenderRows :
          /\ get_component(ecs, entity, "Transform").y # y
          /\ ecs' = [ecs EXCEPT !.components["Transform"][entity].y = y]
    /\ UNCHANGED <<pc, locals, game, steps, store_hist, anim_hist, phys_hist>>

\* self.display.fill(COLOR_BG)
ClearDisplay ==
    /\ pc = "api"
    /\ drawn # <<>>
    /\ drawn' = <<>>
    /\ UNCHANGED <<ecs, pc, locals, running, cam, steps, store_hist, anim_hist, phys_hist>>

\* RenderSystem.update(cam) is called; get_entities_with returns the entities
\* in any order.
CallRenderUpdate ==
    /\ pc = "api"
    /\ drawn = <<>>
    /\ \E renderables \in ListOrders(get_entities_with(ecs, <<"Transform", "PaperSprite">>),
                                    TRUE) :
          drawn' = RenderSystemUpdate(ecs, renderables)
    /\ UNCHANGED <<ecs, pc, locals, running, cam, steps, store_hist, anim_hist, phys_hist>>

RenderNext ==
    \/ MoveSprite
    \/ ClearDisplay
    \/ CallRenderUpdate

SpecRender == RenderInit /\ [][RenderNext]_vars

\* C15: RenderSystem.update draws the entities holding Transform and a sprite
\* in ascending order of (z_index, Transform.y), and entities with equal
\* (z_index, y) in ascending order of entity id, whatever the order in which
\* get_entities_with returned them.
C15_DrawOrderDeterministic ==
    drawn # <<>> =>
        /\ Range(drawn) = get_entities_with(ecs, <<"Transform", "PaperSprite">>)
        /\ \A i, j \in DOMAIN drawn :
              i < j =>
                 \/ KeyLess(RenderKey(ecs, drawn[i]), RenderKey(ecs, drawn[j]))
                 \/ /\ RenderKey(ecs, drawn[i]) = RenderKey(ecs, drawn[j])
                    /\ drawn[i] < drawn[j]

\* What holds of the code in the place of C15: every entity with Transform and
\* a sprite with frames is drawn once, in ascending order of (z_index, y);
\* entities with equal keys come in the order of the list get_entities_with
\* returned.
DrawnInKeyOrder ==
    drawn # <<>> =>
        /\ Range(drawn) = get_entities_with(ecs, <<"Transform", "PaperSprite">>)
        /\ Len(drawn) = Cardinality(Range(drawn))
        /\ \A i, j \in DOMAIN drawn :
              i < j => ~KeyLess(RenderKey(ecs, drawn[j]), RenderKey(ecs, drawn[i]))

(***************************************************************************)
(* More claims on the AnimationSystem.                                     *)
(***************************************************************************)
\* C16: phase A of AnimationSystem.update resets frame_index and frame_timer
\* to 0 exactly when the resolved target name, whichever path produced it,
\* differs from current_anim, and switches to it; when the resolved target
\* equals current_anim, phase A leaves current_anim, frame_index and
\* frame_timer unchanged.
C16_RestartOnNameChange ==
    [][(pc = "anim" /\ pc' = "anim_frames") =>
          \A entity \in get_entities_with(ecs, <<"MovementState", "PaperSprite">>) :
             LET state == get_component(ecs, entity, "MovementState")
                 anim == get_component(ecs, entity, "PaperSprite")
                 anim2 == get_component(ecs', entity, "PaperSprite")
                 target == ResolveTarget(state, anim)
             IN  IF target # anim.current_anim
                 THEN /\ anim2.current_anim = target
                      /\ anim2.frame_index = 0
                      /\ anim2.frame_timer = 0
                 ELSE /\ anim2.current_anim = anim.current_anim
                      /\ anim2.frame_index = anim.frame_index
                      /\ anim2.frame_timer = anim.frame_timer]_vars

\* Phase A has just left alone an animation that is on a later frame with time
\* on its timer: ticks in the same movement state do not restart it.
C16_Witness ==
    /\ pc = "anim_frames"
    /\ \E entity \in get_entities_with(ecs, <<"MovementState", "PaperSprite">>) :
          /\ Sprite(entity).frame_index > 0
          /\ Sprite(entity).frame_timer > 0
          /\ Sprite(entity).current_anim =
                ResolveTarget(get_component(ecs, entity, "MovementState"), Sprite(entity))

(***************************************************************************)
(* More claims on the systems in Game.run.                                 *)
(***************************************************************************)
\* C17: InputSystem.update, for every entity with InputControl, RigidBody and
\* MovementState and for every set of keys held: with a non-zero movement
\* vector it sets the acceleration to the direction of the vector at the
\* length max_speed * 10 (to the resolution of a component) and the state to
\* WALK, and the facing to RIGHT/LEFT by the sign of x whenever x is non-zero,
\* whatever y is, and to DOWN/UP by the sign of y only when x is zero; with a
\* zero vector it sets the state to IDLE and leaves facing and acceleration
\* unchanged.
C17_InputMapping ==
    \A keys \in AllKeys :
       \A entity \in get_entities_with(ecs, <<"InputControl", "RigidBody",
                                             "MovementState">>) :
          LET vec == InputVec(keys)
              after == InputSystemUpdate(ecs, keys)
              rb == get_component(ecs, entity, "RigidBody")
              state == get_component(ecs, entity, "MovementState")
              rb2 == get_component(after, entity, "RigidBody")
              state2 == get_component(after, entity, "MovementState")
              gain == rb.max_speed * 10 * PosScale
          IN  IF vec # Vector2(0, 0)
              THEN /\ state2.current_state = "WALK"
                   /\ LengthSquared(rb2.acceleration) <= gain * gain
                   /\ LengthSquared(rb2.acceleration) > (gain - 2) * (gain - 2)
                   /\ Sign(rb2.acceleration.x) = vec.x
                   /\ Sign(rb2.acceleration.y) = vec.y
                   /\ Abs(rb2.acceleration.x) = Abs(rb2.acceleration.y)
                         \/ rb2.acceleration.x = 0 \/ rb2.acceleration.y = 0
                   /\ vec.x > 0 => state2.facing = "RIGHT"
                   /\ vec.x < 0 => state2.facing = "LEFT"
                   /\ (vec.x = 0 /\ vec.y > 0) => state2.facing = "DOWN"
                   /\ (vec.x = 0 /\ vec.y < 0) => state2.facing = "UP"
              ELSE /\ state2.current_state = "IDLE"
                   /\ state2.facing = state.facing
                   /\ rb2.acceleration = rb.acceleration

\* InputSystem.update has run with LEFT and UP held: the player walks, pushed
\* up and to the left, and faces LEFT.
C17_Witness ==
    /\ pc = "ai"
    /\ get_component(ecs, player_id, "MovementState") = MovementState("WALK", "LEFT")
    /\ get_component(ecs, player_id, "RigidBody").acceleration.x < 0
    /\ get_component(ecs, player_id, "RigidBody").acceleration.y < 0

\* C18: after every PhysicsSystem.update tick the acceleration of every entity
\* holding Transform and RigidBody is (0,0), and it is still (0,0) when the
\* next frame begins: a frame in which neither InputSystem nor AISystem sets
\* the acceleration of an entity reaches the physics step with none, which
\* then takes the friction branch for it.
C18_AccelerationReset ==
    /\ pc \in {"anim", "anim_frames", "destroy", "camera", "render", "frame", "exit",
               "input"} =>
          \A entity \in get_entities_with(ecs, <<"Transform", "RigidBody">>) :
             get_component(ecs, entity, "RigidBody").acceleration = Vector2(0, 0)
    /\ (pc = "physics_x" /\ last_move.a_in = Vector2(0, 0)
                         /\ last_move.v_in # Vector2(0, 0)) =>
          LengthSquared(get_component(ecs, last_move.entity, "RigidBody").velocity)
             < LengthSquared(last_move.v_in)

\* The second frame had no key held: the physics step found the player without
\* acceleration, and friction has slowed it below the speed one frame of
\* acceleration gives.
C18_Witness ==
    /\ pc = "anim"
    /\ ticks = 2
    /\ get_component(ecs, player_id, "MovementState").current_state = "IDLE"
    /\ get_component(ecs, player_id, "RigidBody").acceleration = Vector2(0, 0)
    /\ get_component(ecs, player_id, "RigidBody").velocity.x > 0
    /\ get_component(ecs, player_id, "RigidBody").velocity.x
          < MulDt(get_component(ecs, player_id, "RigidBody").max_speed * 10 * PosScale, 16)

(***************************************************************************)
(* More claims on the store.                                               *)
(***************************************************************************)
\* C21: in every reachable store, process_destruction() with an empty queue
\* changes nothing, and with any queue it leaves the queue empty; calling
\* destroy_entity(x) twice, or three times, before the flush gives the same
\* store after the flush as calling it once, whether x is created or not and
\* whatever is queued already; and destroying and flushing an entity that
\* holds no component leaves every table as it was.  No call faults: each of
\* them has a value.
C21_FlushIdempotent ==
    /\ ecs.entities_to_destroy = <<>> => process_destruction(ecs) = ecs
    /\ process_destruction(ecs).entities_to_destroy = <<>>
    /\ process_destruction(process_destruction(ecs)) = process_destruction(ecs)
    /\ \A x \in 0..MaxEntities :
          LET once == process_destruction(destroy_entity(ecs, x))
              twice == process_destruction(destroy_entity(destroy_entity(ecs, x), x))
              thrice == process_destruction(
                            destroy_entity(destroy_entity(destroy_entity(ecs, x), x), x))
          IN  /\ twice = once
              /\ thrice = once
              /\ KindsOf(once, x) = {}
              /\ (KindsOf(ecs, x) = {} /\ ecs.entities_to_destroy = <<>>) =>
                    once = ecs

\* Entity 0, which holds rows, is queued twice, and entity 1 holds none: the
\* flush of this store removes the rows of entity 0 and nothing else.
C21_Witness ==
    /\ ecs.entities_to_destroy = <<0, 0>>
    /\ KindsOf(ecs, 0) = {"Collider", "InputControl"}
    /\ ecs.next_entity_id = 2
    /\ KindsOf(ecs, 1) = {}
    /\ KindsOf(process_destruction(ecs), 0) = {}
    /\ DOMAIN process_destruction(ecs).components = DOMAIN ecs.components

====
